---- MODULE Spec2Model ----
(***************************************************************************)
(* Model of programs/amm/src/instructions/swap_v2.rs: the swap_v2          *)
(* instruction handler and exact_internal_v2, with the fee calculator, the *)
(* token transfer layer and the transaction frame they run in.             *)
(***************************************************************************)
EXTENDS Integers, Sequences, FiniteSets, TLC

VARIABLES
    overflow_checks,   \* build profile: TRUE = u64 overflow panics, FALSE = it wraps
    fee_config,        \* per mint: the transfer-fee extension, or NoFee
    balance,           \* ledger: token account -> amount (u64)
    pool,              \* PoolState fields read by the handler
    events,            \* program event log (emit!)
    returned,          \* what each finished invocation handed to its caller
    pc,                \* position of the running invocation
    req,               \* arguments, clock and accounts of the running invocation
    local,             \* local variables of exact_internal_v2 / swap_v2
    ctx_amount,        \* cached `amount` of ctx.input/output_token_account
    saved,             \* ledger and pool as they were when the invocation began
    transfers,         \* transfer calls issued by the running invocation
    outcome,           \* result of the running invocation
    calc               \* fee calculator bench (used by SpecFee only)

vars == <<overflow_checks, fee_config, balance, pool, events, returned, pc, req,
          local, ctx_amount, saved, transfers, outcome, calc>>

----------------------------------------------------------------------------
\* Bounds

\* Width of the unsigned amounts (u64 in the program).
WordBits == 11
\* Largest net amount the fee bench is run on.
MaxNet == 120

Modulus == 2 ^ WordBits
MaxU64 == Modulus - 1

----------------------------------------------------------------------------
\* Data

MAX_FEE_BASIS_POINTS == 10000

Mints == {"mint_0", "mint_1"}
OtherMint(m) == IF m = "mint_0" THEN "mint_1" ELSE "mint_0"

Accounts == {<<"user", "mint_0">>, <<"user", "mint_1">>,
             <<"vault", "mint_0">>, <<"vault", "mint_1">>}

NoFee == [present |-> FALSE, rate |-> 0, max |-> 0]
FeeCfg(rate, max) == [present |-> TRUE, rate |-> rate, max |-> max]

\* No fee, 1% capped at 100, 90% capped at 50, and a malformed 100%.
FeeConfigs == {NoFee, FeeCfg(100, 100), FeeCfg(9000, 50),
               FeeCfg(MAX_FEE_BASIS_POINTS, 50)}
\* Well-formed configurations the fee bench runs on (cap reached and not reached).
BenchConfigs == {NoFee, FeeCfg(100, 100), FeeCfg(5000, 20), FeeCfg(9000, 50),
                 FeeCfg(3333, 1000), FeeCfg(9999, 7)}

Ok(v) == [ok |-> TRUE, val |-> v, err |-> "none"]
Err(e) == [ok |-> FALSE, val |-> 0, err |-> e]

Min(a, b) == IF a < b THEN a ELSE b
SetMin(S) == CHOOSE x \in S : \A y \in S : x <= y

----------------------------------------------------------------------------
\* FeeCalculator (crate::util)

Malformed(cfg) == cfg.present /\ cfg.rate >= MAX_FEE_BASIS_POINTS

\* fee = min(floor(amount * rateBps / 10000), maxFee); no configuration => 0.
ForwardFee(cfg, amount) ==
    IF ~cfg.present THEN 0
    ELSE Min((amount * cfg.rate) \div MAX_FEE_BASIS_POINTS, cfg.max)

\* The fee f to put on top of net_amount so that the forward fee of
\* net_amount + f is f again, capped at the mint's maximum fee.
InverseFeeAsForward(cfg, net_amount) == ForwardFee(cfg, net_amount)

InverseFee(cfg, net_amount) ==
    IF ~cfg.present THEN 0
    ELSE LET fixed == {f \in 0..cfg.max :
                          ((net_amount + f) * cfg.rate) \div MAX_FEE_BASIS_POINTS = f}
         IN  IF fixed = {} THEN cfg.max ELSE SetMin(fixed)

get_transfer_fee(cfg, amount) ==
    IF Malformed(cfg) THEN Err("InvalidFeeConfig") ELSE Ok(ForwardFee(cfg, amount))

get_transfer_inverse_fee(cfg, amount) ==
    IF Malformed(cfg) THEN Err("InvalidFeeConfig") ELSE Ok(InverseFee(cfg, amount))

----------------------------------------------------------------------------
\* u64 arithmetic of the handler

InRange(v) == 0 <= v /\ v <= MaxU64
Wrap(v) == (v + Modulus) % Modulus

----------------------------------------------------------------------------
\* Accounts of SwapSingleV2

CtxHandles == {"input_token_account", "output_token_account",
               "input_vault", "output_vault"}

\* The ledger account behind a handle of ctx, for the caller's input mint.
CtxAccount(h, input_vault_mint) ==
    CASE h = "input_token_account"  -> <<"user", input_vault_mint>>
      [] h = "output_token_account" -> <<"user", OtherMint(input_vault_mint)>>
      [] h = "input_vault"          -> <<"vault", input_vault_mint>>
      [] h = "output_vault"         -> <<"vault", OtherMint(input_vault_mint)>>

CtxMint(h, input_vault_mint) == CtxAccount(h, input_vault_mint)[2]

\* moveTokens(source, destination, mint, amount) of the token layer: the source
\* is debited by amount, the destination credited with amount less the fee the
\* mint withholds on transfer.
MoveTokens(ledger, from, to, cfg, amount) ==
    IF ledger[from] < amount THEN Err("InsufficientBalance")
    ELSE LET credited == amount - ForwardFee(cfg, amount)
         IN  IF ledger[to] + credited > MaxU64 THEN Err("Overflow")
             ELSE [ok |-> TRUE, err |-> "none",
                   val |-> [ledger EXCEPT ![from] = @ - amount,
                                          ![to] = @ + credited]]

----------------------------------------------------------------------------
\* Inputs

OpenTime == 1
Clock == {OpenTime - 1, OpenTime, OpenTime + 1}
Amounts == {0, 10, 1000, MaxU64}
Thresholds == {0, 990, 991, MaxU64}
UserBalances == {0, 1000}
VaultBalances == {5, 1000}
\* The pool's sqrt price, and price limits below and above it.
SqrtPrice == 2
PriceLimits == {SqrtPrice - 1, SqrtPrice + 1}

NoLocal ==
    [amount_specified |-> 0, zero_for_one |-> FALSE,
     input_account |-> "input_token_account",
     output_account |-> "output_token_account",
     input_vault |-> "input_vault", output_vault |-> "output_vault",
     input_mint |-> "mint_0", output_mint |-> "mint_1",
     transfer_fee_input |-> 0, transfer_fee_output |-> 0,
     amount_without_fee |-> 0, amount_result |-> -1]

NoReq ==
    [amount |-> 0, other_amount_threshold |-> 0, sqrt_price_limit_x64 |-> 0,
     is_base_input |-> TRUE, input_vault_mint |-> "mint_0", block_timestamp |-> 0]

NoCalc == [stage |-> "off", cfg |-> NoFee, net |-> 0, fee |-> 0, gross |-> 0,
           forward |-> 0]

InitLedgers ==
    {[a \in Accounts |-> IF a[1] = "user" THEN u[a[2]] ELSE v] :
        u \in [Mints -> UserBalances], v \in VaultBalances}

Init ==
    /\ overflow_checks \in BOOLEAN
    /\ fee_config \in [Mints -> FeeConfigs]
    /\ balance \in InitLedgers
    /\ pool = [open_time |-> OpenTime, token_mint_0 |-> "mint_0",
               token_mint_1 |-> "mint_1", sqrt_price_x64 |-> SqrtPrice,
               liquidity |-> 1, tick_current |-> 0]
    /\ events = <<>>
    /\ returned = <<>>
    /\ pc = "idle"
    /\ req = NoReq
    /\ local = NoLocal
    /\ ctx_amount = [h \in {"input_token_account", "output_token_account"} |-> 0]
    /\ saved = [balance |-> balance, pool |-> pool]
    /\ transfers = <<>>
    /\ outcome = "none"
    /\ calc = NoCalc

----------------------------------------------------------------------------
\* The transaction frame the handler runs in

\* The invocation ends with `result`: the caller receives it, and unless it is
\* Ok every account change the invocation made is discarded.
FinishKeepingChanges(result) ==
    /\ outcome' = result
    /\ UNCHANGED <<balance, pool>>
    /\ returned' = Append(returned, result)
    /\ pc' = "done"

Finish(result) ==
    /\ outcome' = result
    /\ balance' = IF result = "Ok" THEN balance ELSE saved.balance
    /\ pool' = IF result = "Ok" THEN pool ELSE saved.pool
    /\ returned' = Append(returned, result)
    /\ pc' = "done"

\* A panic (unwrap of an Err, a checked overflow) aborts the program.
Panic == Finish("Panic")

Continue(next) ==
    /\ pc' = next
    /\ UNCHANGED <<outcome, balance, pool, returned>>

\* The runtime starts swap_v2 with the caller's arguments and accounts.
Invoke ==
    /\ pc = "idle"
    /\ \E amount \in Amounts, threshold \in Thresholds, is_base_input \in BOOLEAN,
          input_vault_mint \in Mints, now \in Clock, limit \in PriceLimits :
          req' = [amount |-> amount, other_amount_threshold |-> threshold,
                  sqrt_price_limit_x64 |-> limit,
                  is_base_input |-> is_base_input,
                  input_vault_mint |-> input_vault_mint,
                  block_timestamp |-> now]
    /\ local' = NoLocal
    /\ ctx_amount' = [h \in DOMAIN ctx_amount |->
                         balance[CtxAccount(h, req'.input_vault_mint)]]
    /\ saved' = [balance |-> balance, pool |-> pool]
    /\ transfers' = <<>>
    /\ outcome' = "pending"
    /\ pc' = "fee_adjust"
    /\ UNCHANGED <<overflow_checks, fee_config, balance, pool, events, returned, calc>>

----------------------------------------------------------------------------
\* exact_internal_v2

Env == <<overflow_checks, fee_config, req, saved, calc>>

\* require_gt!(block_timestamp, open_time) names no error of its own: the
\* caller receives the framework's RequireGtViolated for a pool not yet open.
PoolNotOpen == "RequireGtViolated"

\* Lines 91-100: the specified amount net of (exact input) or grossed up by
\* (exact output) the transfer fee of the caller's input / output mint.
FeeAdjust ==
    /\ pc = "fee_adjust"
    /\ LET output_vault_mint == OtherMint(req.input_vault_mint)
           transfer_fee ==
               IF req.is_base_input
               THEN get_transfer_fee(fee_config[req.input_vault_mint], req.amount)
               ELSE get_transfer_inverse_fee(fee_config[output_vault_mint], req.amount)
           amount_specified ==
               IF req.is_base_input THEN req.amount - transfer_fee.val
               ELSE req.amount + transfer_fee.val
       IN  IF ~transfer_fee.ok \/ (~InRange(amount_specified) /\ overflow_checks)
           THEN Panic /\ UNCHANGED local
           ELSE /\ local' = [local EXCEPT !.amount_specified = Wrap(amount_specified)]
                /\ Continue("time_gate")
    /\ UNCHANGED <<Env, events, ctx_amount, transfers>>

\* Line 103.
TimeGate ==
    /\ pc = "time_gate"
    /\ IF req.block_timestamp > pool.open_time
       THEN Continue("resolve_direction")
       ELSE Finish(PoolNotOpen)
    /\ UNCHANGED <<Env, events, local, ctx_amount, transfers>>

\* Lines 105-127.
ResolveDirection ==
    /\ pc = "resolve_direction"
    /\ LET zero_for_one == req.input_vault_mint = pool.token_mint_0
           output_vault_mint == OtherMint(req.input_vault_mint)
       IN  local' =
             IF zero_for_one
             THEN [local EXCEPT !.zero_for_one = TRUE,
                                !.input_account = "input_token_account",
                                !.output_account = "output_token_account",
                                !.input_vault = "input_vault",
                                !.output_vault = "output_vault",
                                !.input_mint = req.input_vault_mint,
                                !.output_mint = output_vault_mint]
             ELSE [local EXCEPT !.zero_for_one = FALSE,
                                !.input_account = "output_token_account",
                                !.output_account = "input_token_account",
                                !.input_vault = "output_vault",
                                !.output_vault = "input_vault",
                                !.input_mint = output_vault_mint,
                                !.output_mint = req.input_vault_mint]
    /\ Continue("compute_fees")
    /\ UNCHANGED <<Env, events, ctx_amount, transfers>>

\* Lines 129-137.
ComputeFees ==
    /\ pc = "compute_fees"
    /\ LET transfer_fee_input ==
               get_transfer_fee(fee_config[local.input_mint], local.amount_specified)
           transfer_fee_output ==
               get_transfer_inverse_fee(fee_config[local.output_mint],
                                        local.amount_specified)
           amount_without_fee ==
               IF local.zero_for_one
               THEN local.amount_specified - transfer_fee_output.val
               ELSE local.amount_specified - transfer_fee_input.val
       IN  IF \/ ~transfer_fee_input.ok
              \/ ~transfer_fee_output.ok
              \/ (~InRange(amount_without_fee) /\ overflow_checks)
           THEN Panic /\ UNCHANGED local
           ELSE /\ local' = [local EXCEPT
                                !.transfer_fee_input = transfer_fee_input.val,
                                !.transfer_fee_output = transfer_fee_output.val,
                                !.amount_without_fee = Wrap(amount_without_fee)]
                /\ Continue("transfer_in")
    /\ UNCHANGED <<Env, events, ctx_amount, transfers>>

\* A transfer call whose failure is dropped instead of propagated.
TransferIgnoringFailure(kind, from, to, mint, amount, next) ==
    LET src == CtxAccount(from, req.input_vault_mint)
        dst == CtxAccount(to, req.input_vault_mint)
        moved == MoveTokens(balance, src, dst, fee_config[mint], amount)
    IN  /\ transfers' = Append(transfers,
                               [kind |-> kind, from |-> from, to |-> to,
                                mint |-> mint, amount |-> amount])
        /\ \E refused \in BOOLEAN :
              /\ balance' = IF refused \/ ~moved.ok THEN balance ELSE moved.val
              /\ pc' = next
              /\ UNCHANGED <<outcome, pool, returned>>

\* A transfer call of the handler: from, to and mint as passed, the token layer
\* may also refuse it (TransferFeeMismatch).
Transfer(kind, from, to, mint, amount, next) ==
    LET src == CtxAccount(from, req.input_vault_mint)
        dst == CtxAccount(to, req.input_vault_mint)
        moved == MoveTokens(balance, src, dst, fee_config[mint], amount)
    IN  /\ transfers' = Append(transfers,
                               [kind |-> kind, from |-> from, to |-> to,
                                mint |-> mint, amount |-> amount])
        /\ \E refused \in BOOLEAN :
              IF refused THEN Finish("TransferFeeMismatch")
              ELSE IF ~moved.ok THEN Finish(moved.err)
              ELSE /\ balance' = moved.val
                   /\ pc' = next
                   /\ UNCHANGED <<outcome, pool, returned>>

\* Lines 139-148: transfer_from_user_to_pool_vault.
TransferIn ==
    /\ pc = "transfer_in"
    /\ Transfer("user_to_vault", local.input_account, local.input_vault,
                local.input_mint, local.amount_specified, "transfer_out")
    /\ UNCHANGED <<Env, events, local, ctx_amount>>

\* Lines 150-159: transfer_from_pool_vault_to_user.
TransferOut ==
    /\ pc = "transfer_out"
    /\ Transfer("vault_to_user", local.output_vault, local.output_account,
                local.output_mint, local.amount_without_fee, "reload")
    /\ UNCHANGED <<Env, events, local, ctx_amount>>

\* A reload that leaves the cached amounts as they were at entry.
ReloadStale ==
    /\ pc = "reload"
    /\ \E failed \in BOOLEAN :
          IF failed
          THEN Finish("AccountDidNotDeserialize") /\ UNCHANGED ctx_amount
          ELSE UNCHANGED ctx_amount /\ Continue("emit")
    /\ UNCHANGED <<Env, events, local, transfers>>

\* Lines 161-163: both user accounts are read again from the ledger.
Reload ==
    /\ pc = "reload"
    /\ \E failed \in BOOLEAN :
          IF failed
          THEN Finish("AccountDidNotDeserialize") /\ UNCHANGED ctx_amount
          ELSE /\ ctx_amount' = [h \in DOMAIN ctx_amount |->
                                    balance[CtxAccount(h, req.input_vault_mint)]]
               /\ Continue("emit")
    /\ UNCHANGED <<Env, events, local, transfers>>

SwapEvent ==
    [token_account_0 |-> local.input_account,
     token_account_1 |-> local.output_account,
     amount_0 |-> IF local.zero_for_one THEN local.amount_specified
                  ELSE local.amount_without_fee,
     transfer_fee_0 |-> local.transfer_fee_input,
     amount_1 |-> IF local.zero_for_one THEN local.amount_without_fee
                  ELSE local.amount_specified,
     transfer_fee_1 |-> local.transfer_fee_output,
     zero_for_one |-> local.zero_for_one,
     sqrt_price_x64 |-> pool.sqrt_price_x64,
     liquidity |-> pool.liquidity,
     tick |-> pool.tick_current]

\* Lines 165-179: emit! appends to the program log.
Emit ==
    /\ pc = "emit"
    /\ events' = Append(events, SwapEvent)
    /\ Continue("return")
    /\ UNCHANGED <<Env, local, ctx_amount, transfers>>

\* Lines 181-186.
Return ==
    /\ pc = "return"
    /\ local' = [local EXCEPT !.amount_result =
                    IF req.is_base_input THEN ctx_amount["output_token_account"]
                    ELSE ctx_amount["input_token_account"]]
    /\ Continue("slippage")
    /\ UNCHANGED <<Env, events, ctx_amount, transfers>>

----------------------------------------------------------------------------
\* swap_v2

SlippageGuardStrict(is_base_input, amount_result, other_amount_threshold) ==
    IF is_base_input
    THEN IF amount_result > other_amount_threshold THEN "Ok"
         ELSE "TooLittleOutputReceived"
    ELSE IF other_amount_threshold > amount_result THEN "Ok"
         ELSE "TooMuchInputPaid"

\* Lines 204-216.
SlippageGuard(is_base_input, amount_result, other_amount_threshold) ==
    IF is_base_input
    THEN IF amount_result >= other_amount_threshold THEN "Ok"
         ELSE "TooLittleOutputReceived"
    ELSE IF other_amount_threshold >= amount_result THEN "Ok"
         ELSE "TooMuchInputPaid"

SlippageCheck ==
    /\ pc = "slippage"
    /\ Finish(SlippageGuard(req.is_base_input, local.amount_result,
                            req.other_amount_threshold))
    /\ UNCHANGED <<Env, events, local, ctx_amount, transfers>>

Swap ==
    \/ FeeAdjust
    \/ TimeGate
    \/ ResolveDirection
    \/ ComputeFees
    \/ TransferIn
    \/ TransferOut
    \/ Reload
    \/ Emit
    \/ Return
    \/ SlippageCheck

Next == Invoke \/ Swap

Spec == Init /\ [][Next]_vars

----------------------------------------------------------------------------
\* Fee calculator bench: the two fee functions applied as the handler applies
\* them (inverse fee added to a net amount, forward fee of the gross amount).

InitFee ==
    /\ overflow_checks = TRUE
    /\ fee_config = [m \in Mints |-> NoFee]
    /\ balance = [a \in Accounts |-> 0]
    /\ pool = [open_time |-> OpenTime, token_mint_0 |-> "mint_0",
               token_mint_1 |-> "mint_1", sqrt_price_x64 |-> SqrtPrice,
               liquidity |-> 1, tick_current |-> 0]
    /\ events = <<>>
    /\ returned = <<>>
    /\ pc = "bench"
    /\ req = NoReq
    /\ local = NoLocal
    /\ ctx_amount = [h \in {"input_token_account", "output_token_account"} |-> 0]
    /\ saved = [balance |-> balance, pool |-> pool]
    /\ transfers = <<>>
    /\ outcome = "none"
    /\ calc \in [stage : {"net"}, cfg : BenchConfigs, net : 0..MaxNet, fee : {0},
                 gross : {0}, forward : {0}]

Swapping == <<overflow_checks, fee_config, balance, pool, events, returned, pc,
              req, local, ctx_amount, saved, transfers, outcome>>

BenchInverse ==
    /\ calc.stage = "net"
    /\ LET transfer_fee == get_transfer_inverse_fee(calc.cfg, calc.net)
       IN  calc' = [calc EXCEPT !.stage = "gross", !.fee = transfer_fee.val,
                                !.gross = calc.net + transfer_fee.val]
    /\ UNCHANGED Swapping

BenchForward ==
    /\ calc.stage = "gross"
    /\ calc' = [calc EXCEPT !.stage = "done",
                            !.forward = get_transfer_fee(calc.cfg, calc.gross).val]
    /\ UNCHANGED Swapping

NextFee == BenchInverse \/ BenchForward

SpecFee == InitFee /\ [][NextFee]_vars

----------------------------------------------------------------------------
\* Claims

Finished == pc = "done"
Failed == Finished /\ outcome # "Ok"
Succeeded == Finished /\ outcome = "Ok"
\* exact_internal_v2 returned a realized amount to swap_v2
Realized == local.amount_result >= 0
InputCfg == fee_config[req.input_vault_mint]
OutputCfg == fee_config[OtherMint(req.input_vault_mint)]
AfterTimeGate == pc \in {"resolve_direction", "compute_fees", "transfer_in",
                         "transfer_out", "reload", "emit", "return", "slippage"}

\* C1: every invocation made at now <= pool.open_time ends with the pool-not-open
\* error and leaves every balance as it was; the swap proceeds past the time
\* gate only when now > open_time.
C1_TimeGate ==
    /\ (Finished /\ req.block_timestamp <= pool.open_time)
          => (outcome = PoolNotOpen /\ balance = saved.balance)
    /\ AfterTimeGate => req.block_timestamp > pool.open_time

\* C2: once exact_internal_v2 has returned r, swap_v2 fails with
\* TooLittleOutputReceived when exact-input and r < t, with TooMuchInputPaid when
\* exact-output and r > t, and succeeds otherwise (equality included).
C2_Slippage ==
    (Finished /\ Realized) =>
        LET r == local.amount_result
            t == req.other_amount_threshold
        IN  outcome = IF req.is_base_input /\ r < t THEN "TooLittleOutputReceived"
                      ELSE IF ~req.is_base_input /\ r > t THEN "TooMuchInputPaid"
                      ELSE "Ok"

\* An exact-input swap whose realized amount equals the threshold succeeded.
C2_Witness ==
    /\ Succeeded /\ Realized /\ req.is_base_input
    /\ local.amount_result = req.other_amount_threshold
    /\ local.amount_result > 0

\* C3: an invocation that ends in an error after the inbound transfer was issued
\* leaves every user balance, every vault balance and the pool as they were
\* before the invocation.
C3_Atomicity ==
    (Failed /\ Len(transfers) >= 1) =>
        (balance = saved.balance /\ pool = saved.pool)

\* The outbound transfer failed after the inbound one had moved tokens.
C3_Witness ==
    /\ Failed /\ Len(transfers) = 2
    /\ transfers[1].amount > 0
    /\ outcome = "InsufficientBalance"

\* C4: in an exact-input swap between zero-fee mints the realized amount that
\* is compared against the threshold is the counter-amount paid out, whatever the
\* output account held before, so the swap succeeds exactly when
\* threshold <= counter-amount.
C4_RealizedIsCounterAmount ==
    (Finished /\ Realized /\ req.is_base_input
       /\ ~InputCfg.present /\ ~OutputCfg.present) =>
        /\ local.amount_result = local.amount_without_fee
        /\ (outcome = "Ok") <=> (req.other_amount_threshold <= local.amount_without_fee)

\* C5: in a successful exact-input swap the user-to-vault transfer is passed the
\* gross specified amount the caller supplied.
C5_InboundIsGross ==
    (Succeeded /\ req.is_base_input) =>
        /\ transfers[1].kind = "user_to_vault"
        /\ transfers[1].amount = req.amount

\* C6: in a successful swap the vault-to-user transfer is passed the gross
\* counter-amount less the transfer fee (forward or inverse, in u64 arithmetic)
\* of the mint of the vault it debits.
C6_OutboundFeeOfPaidMint ==
    Succeeded =>
        LET out == transfers[2]
            paid_cfg == fee_config[CtxMint(out.from, req.input_vault_mint)]
        IN  /\ out.kind = "vault_to_user"
            /\ \/ out.amount = Wrap(local.amount_specified
                                      - ForwardFee(paid_cfg, local.amount_specified))
               \/ out.amount = Wrap(local.amount_specified
                                      - InverseFee(paid_cfg, local.amount_specified))

\* C7: the amount that enters all processing after the fee adjustment is
\* a - forwardFee(input mint, a) for exact input and a + inverseFee(output mint, a)
\* for exact output, with the caller-designated mints.
C7_FeeAdjustedAmount ==
    (pc \in {"time_gate", "slippage"} \/ AfterTimeGate) =>
        local.amount_specified =
            IF req.is_base_input THEN req.amount - ForwardFee(InputCfg, req.amount)
            ELSE req.amount + InverseFee(OutputCfg, req.amount)

\* A fee computation of the invocation ran on a malformed configuration: the one
\* of the fee adjustment, or, once that and the time gate were passed, one of
\* the two of the canonical mints.
FeeComputationFailed ==
    LET first == IF req.is_base_input THEN InputCfg ELSE OutputCfg
        adjusted == IF req.is_base_input
                    THEN req.amount - ForwardFee(first, req.amount)
                    ELSE req.amount + InverseFee(first, req.amount)
    IN  \/ Malformed(first)
        \/ /\ InRange(adjusted) \/ ~overflow_checks
           /\ req.block_timestamp > pool.open_time
           /\ Malformed(InputCfg) \/ Malformed(OutputCfg)

\* C8: a swap in which a fee computation fails on a malformed configuration
\* returns InvalidFeeConfig to its caller, with no transfer issued and no balance
\* changed.
C8_InvalidFeeConfigReturned ==
    (Finished /\ FeeComputationFailed) =>
        /\ outcome = "InvalidFeeConfig"
        /\ transfers = <<>>
        /\ balance = saved.balance

\* C9: the event log holds one SwapEvent per invocation that returned success
\* and none for an invocation that ended in an error.
C9_OneEventPerSuccess ==
    Finished =>
        Len(events) = Cardinality({i \in 1..Len(returned) : returned[i] = "Ok"})

\* C10: for a well-formed mint and a net amount n, with gross = n + inverseFee(n),
\* forwardFee(gross) is inverseFee(n) again, so a transfer of gross delivers
\* exactly n.
C10_InverseFeeRoundTrip ==
    calc.stage = "done" =>
        /\ calc.gross = calc.net + calc.fee
        /\ calc.forward = calc.fee
        /\ calc.gross - calc.forward = calc.net

\* A round trip through a fee clamped at the mint's maximum fee.
C10_Witness ==
    /\ calc.stage = "done"
    /\ calc.cfg.present /\ calc.net > 0
    /\ calc.fee = calc.cfg.max
    /\ ((calc.gross * calc.cfg.rate) \div MAX_FEE_BASIS_POINTS) > calc.cfg.max

UserInput == <<"user", req.input_vault_mint>>
UserOutput == <<"user", OtherMint(req.input_vault_mint)>>

\* C11: for both directions the inbound transfer debits the caller's input token
\* account and credits the caller's input vault, the outbound transfer debits
\* the caller's output vault and credits the caller's output token account;
\* after a successful swap the input account has not grown and the output
\* account has not shrunk.
C11_DebitCreditRoles ==
    Succeeded =>
        /\ transfers[1].from = "input_token_account"
        /\ transfers[1].to = "input_vault"
        /\ transfers[2].from = "output_vault"
        /\ transfers[2].to = "output_token_account"
        /\ balance[UserInput] <= saved.balance[UserInput]
        /\ balance[UserOutput] >= saved.balance[UserOutput]

\* C12: the open-time check comes before any fee computation: an invocation at
\* now <= pool.open_time ends with the pool-not-open error whatever the fee
\* configurations and the specified amount are.
C12_ValidationFirst ==
    \A m \in Mints, c \in FeeConfigs, a \in Amounts :
        (Finished /\ req.block_timestamp <= pool.open_time
           /\ fee_config[m] = c /\ req.amount = a)
            => outcome = PoolNotOpen

\* What a transfer call of the log credits to its destination.
Credited(t) == t.amount - ForwardFee(fee_config[t.mint], t.amount)
Source(t) == CtxAccount(t.from, req.input_vault_mint)
Destination(t) == CtxAccount(t.to, req.input_vault_mint)
InboundApplied ==
    /\ Len(transfers) >= 1
    /\ balance[Source(transfers[1])]
         = saved.balance[Source(transfers[1])] - transfers[1].amount
    /\ balance[Destination(transfers[1])]
         = saved.balance[Destination(transfers[1])] + Credited(transfers[1])
VaultDebited ==
    \E m \in Mints : balance[<<"vault", m>>] < saved.balance[<<"vault", m>>]
Settled == pc \in {"reload", "emit", "return", "slippage"} \/ Succeeded

\* C13: the vault-to-user transfer is issued only after the user-to-vault
\* transfer of the invocation has completed; if the inbound transfer fails no
\* outbound transfer is attempted; no vault is ever debited while the inbound
\* credit of the invocation is not applied.
C13_InboundBeforeOutbound ==
    /\ Len(transfers) <= 2
    /\ Len(transfers) >= 1 => transfers[1].kind = "user_to_vault"
    /\ Len(transfers) = 2 => transfers[2].kind = "vault_to_user"
    /\ pc = "transfer_out" => (Len(transfers) = 1 /\ InboundApplied /\ ~VaultDebited)
    /\ (Finished /\ Len(transfers) = 1) => Failed
    /\ VaultDebited => (Settled /\ Len(transfers) = 2 /\ InboundApplied)

\* Both legs moved tokens and the outbound one has debited its vault.
C13_Witness ==
    /\ pc = "reload"
    /\ transfers[1].amount > 0 /\ transfers[2].amount > 0
    /\ VaultDebited

ReturnedAccount ==
    CtxAccount(IF req.is_base_input THEN "output_token_account"
               ELSE "input_token_account", req.input_vault_mint)

C15_PoolStateUpdated ==
    Succeeded =>
        LET e == events[Len(events)]
        IN  /\ transfers[1].amount > 0
                 => pool.sqrt_price_x64 # saved.pool.sqrt_price_x64
            /\ balance[Destination(transfers[1])]
                 = saved.balance[Destination(transfers[1])] + Credited(transfers[1])
            /\ balance[Source(transfers[2])]
                 = saved.balance[Source(transfers[2])] - transfers[2].amount
            /\ e.sqrt_price_x64 = pool.sqrt_price_x64
            /\ e.liquidity = pool.liquidity
            /\ e.tick = pool.tick_current

\* C16: no swap of a non-zero amount settles at a price beyond the caller's sqrt_price_limit_x64: a
\* zero-for-one trade (price falling) ends at or above the limit, a one-for-zero
\* trade (price rising) at or below it; a trade that cannot meet the limit ends
\* with PriceLimitExceeded before any transfer.
C16_PriceLimitHonoured ==
    /\ (Succeeded /\ transfers[1].amount > 0) =>
          IF local.zero_for_one
          THEN pool.sqrt_price_x64 >= req.sqrt_price_limit_x64
          ELSE pool.sqrt_price_x64 <= req.sqrt_price_limit_x64
    /\ outcome = "PriceLimitExceeded" => transfers = <<>>

\* The fees a mint's configuration gives on an amount of the invocation.
LegFees(mint) ==
    {ForwardFee(fee_config[mint], a) : a \in {local.amount_specified,
                                              local.amount_without_fee}}
      \cup {InverseFee(fee_config[mint], a) : a \in {local.amount_specified,
                                                     local.amount_without_fee}}
Touches(t, account) == t.from = account \/ t.to = account

\* C17: in a successful swap the SwapEvent's amount_0 / amount_1 is the amount
\* passed to the transfer that touched token_account_0 / token_account_1, and
\* transfer_fee_0 / transfer_fee_1 is a fee of the mint of that leg.
C17_EventMatchesTransfers ==
    Succeeded =>
        LET e == events[Len(events)]
        IN  \A i \in 1..Len(transfers) :
                /\ Touches(transfers[i], e.token_account_0) =>
                      /\ e.amount_0 = transfers[i].amount
                      /\ e.transfer_fee_0 \in LegFees(transfers[i].mint)
                /\ Touches(transfers[i], e.token_account_1) =>
                      /\ e.amount_1 = transfers[i].amount
                      /\ e.transfer_fee_1 \in LegFees(transfers[i].mint)

WellFormed == \A m \in Mints : ~Malformed(fee_config[m])
\* Line 94 / 99 in the integers.
AdjustedAmount ==
    IF req.is_base_input THEN req.amount - ForwardFee(InputCfg, req.amount)
    ELSE req.amount + InverseFee(OutputCfg, req.amount)
\* Line 134 / 136 in the integers.
AmountWithoutFee ==
    IF local.zero_for_one
    THEN local.amount_specified
           - InverseFee(fee_config[local.output_mint], local.amount_specified)
    ELSE local.amount_specified
           - ForwardFee(fee_config[local.input_mint], local.amount_specified)

\* C18: with well-formed fee configurations every subtraction of
\* exact_internal_v2 is non-negative and the exact-output addition stays within
\* u64, so no transfer carries an amount wrapped modulo 2^64.
C18_ArithmeticInRange ==
    WellFormed =>
        /\ pc = "fee_adjust" => InRange(AdjustedAmount)
        /\ pc = "compute_fees" => InRange(AmountWithoutFee)
        /\ Len(transfers) >= 1 =>
              /\ transfers[1].amount = AdjustedAmount
              /\ InRange(AmountWithoutFee)

====
